---- MODULE Spec2Model ----
(***************************************************************************)
(* Freelance marketplace server: the Express application of server.js and  *)
(* its three sibling variants (unnamed/part_000, part_001, part_002).      *)
(*                                                                         *)
(* The state is the Express router stack built at start-up, the two        *)
(* MongoDB collections, the clock, every browser's cookie jar and the      *)
(* requests in flight.  A handler is cut at its awaits: the synchronous    *)
(* prefix (authentication gate, guards, ObjectId construction) is the      *)
(* arrival step, and every awaited collection call is a step of its own,   *)
(* so requests interleave exactly where the event loop lets them.          *)
(***************************************************************************)
EXTENDS Integers, Sequences, FiniteSets, TLC

VARIABLES
    variant,                  \* which of the four server files is running
    stack,                    \* Express router stack, in registration order
    runPc,                    \* position of the async function run()
    connected,                \* what client.connect() has come to
    listening,                \* app.listen() has been called
    now,                      \* the clock, in seconds
    cookie,                   \* cookie jar of every browser: the `token` cookie
    issuedAt,                 \* (history) clock reading when the jar's token was signed
    loggedOut,                \* (history) the browser's last auth call was POST /logout
    kept,                     \* copy of a token a client holds outside the cookie jar
    jobCollection,            \* documents of db.collection("jobs")
    acceptedTasksCollection,  \* documents of db.collection("acceptedTasks")
    insertedOwner,            \* (history) employerEmail each job was inserted with
    nextId,                   \* ObjectId generator of the driver
    req                       \* requests in flight and their responses

vars == <<variant, stack, runPc, connected, listening, now, cookie, issuedAt,
          loggedOut, kept, jobCollection, acceptedTasksCollection, insertedOwner, nextId, req>>

-----------------------------------------------------------------------------
(* Bounds of the model *)

MaxReq == 2        \* requests in flight at once
MaxId == 2         \* ObjectIds the driver hands out
MaxTicks == 2      \* steps of the clock, half an hour each

(* Program constants *)

ExpiresIn == 3600  \* jwt.sign(..., { expiresIn: '1h' }), in seconds

-----------------------------------------------------------------------------
(* Values *)

Variants == {"server.js", "part_000", "part_001", "part_002"}

Undefined == "undefined"                 \* a property the object does not have
Emails == {"a@x.com", "b@x.com"}
EmailOrUndefined == Emails \cup {Undefined}

Clients == {"c1"}                        \* browsers, each with a cookie jar
Attacker == "attacker"                   \* sends a token signed with another secret
Senders == Clients \cup {Attacker}
Replayer == "replayer"                   \* sends the token it has kept

Reqs == 1..MaxReq

ACCESS_TOKEN_SECRET == "server-secret"
OtherSecret == "other-secret"

NoToken == [email |-> Undefined, iat |-> 0, exp |-> 0, sig |-> "none"]
ForgedToken == [email |-> "a@x.com", iat |-> 0, exp |-> (MaxTicks + 2) * ExpiresIn,
                sig |-> OtherSecret]

MalformedId == 0                         \* a path id that is no 24-digit hex string
NullId == 0                              \* insertedId: null
ObjectIds == 1..MaxId
PathIds == ObjectIds \cup {MalformedId}

NoDate == 0                              \* body without postingDate (falsy)
InvalidDate == -1                        \* a postingDate that new Date() cannot parse
BodyDates == {NoDate, InvalidDate, 1}

JobRefs == {"J1", "J2"}                  \* jobId of an accepted task: never dereferenced

Sorts == {"asc", "desc", Undefined, "other"}

Routes == {"POST /jwt", "POST /logout", "GET /jobs", "GET /job/:id",
           "GET /jobs/employer/:email", "POST /jobs", "PUT /job/:id",
           "DELETE /job/:id", "POST /accepted-tasks",
           "GET /accepted-tasks/taker/:email", "DELETE /accepted-tasks/:id"}

GetRoutes == {"GET /jobs", "GET /job/:id", "GET /jobs/employer/:email",
              "GET /accepted-tasks/taker/:email"}

\* the routes registered with verifyToken in front of the handler
ProtectedRoutes == Routes \ {"POST /jwt", "POST /logout", "GET /jobs"}

MethodOf(route) == IF route \in GetRoutes THEN "GET" ELSE "OTHER"

-----------------------------------------------------------------------------
(* Start-up: the module's top level and the async function run() *)

\* the routes run() registers; part_001 stops after GET /job/:id
ApiRoutes(v) ==
    IF v = "part_001"
    THEN {"POST /jwt", "POST /logout", "GET /jobs", "GET /job/:id"}
    ELSE Routes

\* run() awaits client.connect() before it registers anything
AwaitsConnect(v) == v \in {"part_000", "part_002"}

\* express.static and app.get("*") follow the call of run()
ServesFrontend(v) == v \in {"server.js", "part_001", "part_002"}

RECURSIVE FirstLayer(_, _, _, _)
\* Express walks the stack in registration order; express.static finds no
\* file under an API path and calls next()
FirstLayer(st, v, method, route) ==
    IF st = <<>> THEN "none"
    ELSE IF Head(st) = "api" /\ route \in ApiRoutes(v) THEN "api"
    ELSE IF Head(st) = "catchall" /\ method = "GET" THEN "catchall"
    ELSE FirstLayer(Tail(st), v, method, route)

Dispatch(route) == FirstLayer(stack, variant, MethodOf(route), route)

FrontendLayers(v) == IF ServesFrontend(v) THEN <<"static", "catchall">> ELSE <<>>

\* node runs the module top level in one go: run() up to its first await,
\* then the frontend middleware, then app.listen
Boot ==
    /\ runPc = "start"
    /\ IF AwaitsConnect(variant)
       THEN /\ runPc' = "connect"
            /\ stack' = FrontendLayers(variant)
       ELSE /\ runPc' = "registered"
            /\ stack' = <<"api">> \o FrontendLayers(variant)
    /\ listening' = TRUE
    /\ UNCHANGED <<variant, connected, now, cookie, issuedAt, loggedOut, kept,
                   jobCollection, acceptedTasksCollection, insertedOwner,
                   nextId, req>>

\* await client.connect() settles; server.js and part_001 never call it and
\* leave the connection to the driver's first operation
ConnectDone(ok) ==
    /\ runPc = "connect"
    /\ connected' = IF ok THEN "yes" ELSE "failed"
    /\ IF variant = "part_000"
       THEN /\ runPc' = IF ok THEN "ping" ELSE "rejected"
            /\ stack' = stack
       ELSE \* part_002 catches the failure, logs it and goes on
            /\ runPc' = "registered"
            /\ stack' = stack \o <<"api">>
    /\ UNCHANGED <<variant, listening, now, cookie, issuedAt, loggedOut, kept,
                   jobCollection, acceptedTasksCollection, insertedOwner,
                   nextId, req>>

\* part_000: await client.db("admin").command({ ping: 1 }) settles
PingDone(ok) ==
    /\ runPc = "ping"
    /\ runPc' = IF ok THEN "registered" ELSE "rejected"
    /\ stack' = IF ok THEN stack \o <<"api">> ELSE stack
    /\ UNCHANGED <<variant, connected, listening, now, cookie, issuedAt,
                   loggedOut, kept, jobCollection, acceptedTasksCollection, insertedOwner,
                   nextId, req>>

-----------------------------------------------------------------------------
(* Token service: jsonwebtoken as the handlers call it *)

\* jwt.sign(user, secret, { expiresIn: '1h' }): an iat in the payload is kept
\* and exp is counted from it; without one (or with 0) the clock is used
jwtSign(user, secret) ==
    LET timestamp == IF user.iat # 0 THEN user.iat ELSE now
    IN  [email |-> user.email, iat |-> timestamp, exp |-> timestamp + ExpiresIn,
         sig |-> secret]

\* jwt.verify(token, secret, callback): the signature first, then the expiry
jwtVerify(token, secret) ==
    IF token.sig # secret THEN "JsonWebTokenError"
    ELSE IF now >= token.exp THEN "TokenExpiredError"
    ELSE "ok"

\* a mutant of verifyToken: the token must also be the one of a live session
verifyTokenSession(token) ==
    IF token = NoToken THEN [gate |-> "noToken", user |-> Undefined]
    ELSE IF \/ jwtVerify(token, ACCESS_TOKEN_SECRET) # "ok"
            \/ \A c \in Clients : cookie[c] # token
         THEN [gate |-> "invalidToken", user |-> Undefined]
         ELSE [gate |-> "next", user |-> token.email]

\* a mutant of verifyToken: next() is called whatever jwt.verify reports
verifyTokenNoReturn(token) ==
    IF token = NoToken THEN [gate |-> "noToken", user |-> Undefined]
    ELSE [gate |-> "next", user |-> token.email]

\* the authentication gate
verifyToken(token) ==
    IF token = NoToken THEN [gate |-> "noToken", user |-> Undefined]
    ELSE IF jwtVerify(token, ACCESS_TOKEN_SECRET) # "ok"
         THEN [gate |-> "invalidToken", user |-> Undefined]
         ELSE [gate |-> "next", user |-> token.email]

\* the cookie a sender presents
Presented(s) ==
    IF s \in Clients THEN cookie[s]
    ELSE IF s = Replayer THEN kept
    ELSE ForgedToken

-----------------------------------------------------------------------------
(* Requests *)

bootVars == <<variant, stack, runPc, connected, listening>>
authVars == <<cookie, issuedAt, loggedOut, kept>>
storeVars == <<jobCollection, acceptedTasksCollection, insertedOwner, nextId>>

\* pc: "idle"  no request in the slot
\*     "find"  the handler awaits findOne / find().toArray()
\*     "write" the handler awaits insertOne / updateOne / deleteOne
\*     "done"  the response is sent
\*     "hung"  the async handler rejected: Express 4 sends nothing
IdleReq ==
    [route |-> "none", pc |-> "idle", sender |-> Attacker, layer |-> "none",
     gate |-> "none", user |-> Undefined, id |-> MalformedId,
     owner |-> Undefined, date |-> NoDate, title |-> Undefined,
     jobId |-> Undefined, sort |-> Undefined, status |-> 0, message |-> "",
     docs |-> <<>>, insertedId |-> NullId, dbCalls |-> 0]

SlotFree(r) == req[r].pc \in {"idle", "done", "hung"}

\* the request reaches the handler chain run() registered for its route
Routed(r, route) == listening /\ SlotFree(r) /\ Dispatch(route) = "api"

Arrival(route, s, g) ==
    [IdleReq EXCEPT !.route = route, !.sender = s, !.layer = "api",
                    !.gate = g.gate, !.user = g.user]

\* the request is over: what the handler held of its body is dropped, but
\* for the owner field it named
Finished(q, pc) ==
    [q EXCEPT !.pc = pc, !.date = NoDate, !.title = Undefined,
              !.jobId = Undefined, !.sort = Undefined,
              !.owner = IF q.route = "PUT /job/:id" THEN Undefined ELSE @]

\* res.status(code).send({ message })
Send(q, code, msg) == [Finished(q, "done") EXCEPT !.status = code, !.message = msg]

\* res.send(result): Express answers 200
SendResult(q) == [Finished(q, "done") EXCEPT !.status = 200]

\* verifyToken answered 401: the handler is never called
Unauthorized(q) ==
    Send(q, 401, IF q.gate = "noToken" THEN "No token" ELSE "Invalid token")

\* an exception in an async handler: the promise rejects and nobody answers
Throw(q) == Finished(q, "hung")

\* the handler calls a collection method and awaits it
Await(q, pc) == [q EXCEPT !.pc = pc, !.dbCalls = @ + 1]

\* new ObjectId(id) throws on a malformed id
ObjectIdThrows(id) == id = MalformedId

\* find().toArray() without a sort: the documents in _id order
RECURSIVE ToArray(_)
ToArray(S) ==
    IF S = {} THEN <<>>
    ELSE LET d == CHOOSE x \in S : \A y \in S : x.id <= y.id
         IN  <<d>> \o ToArray(S \ {d})

Range(seq) == {seq[i] : i \in DOMAIN seq}

\* a request no layer of run() takes: the catch-all answers a GET with
\* index.html, anything else gets Express's 404
Unrouted(r, route, s) ==
    /\ listening /\ SlotFree(r)
    /\ Dispatch(route) # "api"
    /\ req' = [req EXCEPT ![r] =
                 IF Dispatch(route) = "catchall"
                 THEN [IdleReq EXCEPT !.route = route, !.sender = s, !.pc = "done",
                                      !.layer = "catchall", !.status = 200,
                                      !.message = "index.html"]
                 ELSE [IdleReq EXCEPT !.route = route, !.sender = s, !.pc = "done",
                                      !.status = 404]]
    /\ UNCHANGED <<bootVars, now, authVars, storeVars>>

\* an awaited collection call rejects (connection lost, server error)
DbFails(r) ==
    /\ req[r].pc \in {"find", "write"}
    /\ req' = [req EXCEPT ![r] = Throw(@)]
    /\ UNCHANGED <<bootVars, now, authVars, storeVars>>

\* app.use((err, req, res, next) => res.status(500).send('Something broke!')):
\* run() registers it with the routes; Express calls it for next(err) only
ErrorMiddleware(q) == Send(q, 500, "Something broke!")

\* cors: an Origin outside clientUrls makes the origin callback pass an Error,
\* which goes to next(err) before any route is looked at; without the error
\* middleware Express's own final handler answers 500
CorsRejected(r, route, s) ==
    /\ listening /\ SlotFree(r)
    /\ LET q == [IdleReq EXCEPT !.route = route, !.sender = s, !.layer = "cors"]
       IN  req' = [req EXCEPT ![r] =
                     IF "api" \in Range(stack) THEN ErrorMiddleware(q)
                     ELSE Send(q, 500, "Not allowed by CORS")]
    /\ UNCHANGED <<bootVars, now, authVars, storeVars>>

\* the clock advances
Tick ==
    /\ now + ExpiresIn \div 2 <= MaxTicks * (ExpiresIn \div 2)
    /\ now' = now + ExpiresIn \div 2
    /\ UNCHANGED <<bootVars, authVars, storeVars, req>>

-----------------------------------------------------------------------------
(* Session endpoints *)

\* a mutant of clearCookie: the call names another cookie and `token` stays
clearCookieOther(jar, c) == jar

\* res.clearCookie('token', ...): the browser drops the cookie
clearCookie(jar, c) == [jar EXCEPT ![c] = NoToken]

\* app.post('/jwt'): sign req.body and set the cookie
Jwt(c, user) ==
    /\ listening /\ Dispatch("POST /jwt") = "api"
    /\ cookie' = [cookie EXCEPT ![c] = jwtSign(user, ACCESS_TOKEN_SECRET)]
    /\ issuedAt' = [issuedAt EXCEPT ![c] = now]
    /\ loggedOut' = [loggedOut EXCEPT ![c] = FALSE]
    /\ UNCHANGED <<bootVars, now, kept, storeVars, req>>

\* app.post('/logout')
Logout(c) ==
    /\ listening /\ Dispatch("POST /logout") = "api"
    /\ cookie' = clearCookie(cookie, c)
    /\ loggedOut' = [loggedOut EXCEPT ![c] = TRUE]
    /\ UNCHANGED <<bootVars, now, issuedAt, kept, storeVars, req>>

\* the token of res.cookie('token', token, ...) is a bearer string: a client
\* that is no browser (a script, a proxy) can keep it where clearCookie does
\* not reach
KeepToken(c) ==
    /\ cookie[c] # NoToken
    /\ kept # cookie[c]
    /\ kept' = cookie[c]
    /\ UNCHANGED <<bootVars, now, cookie, issuedAt, loggedOut, storeVars, req>>

-----------------------------------------------------------------------------
(* Job endpoints *)

\* jobCollection.findOne({ _id: new ObjectId(id) })
findOneJob(id) == {j \in jobCollection : j.id = id}

\* a mutant of sortQuery: 'desc' is not the default but has to be asked for
sortQueryAscDefault(sort) == IF sort = "desc" THEN -1 ELSE 1

\* let sortQuery = { postingDate: -1 }; if (sort === 'asc') sortQuery = { postingDate: 1 }
sortQuery(sort) == IF sort = "asc" THEN 1 ELSE -1

\* find().sort({ postingDate: dir }).toArray(): every order of the documents
\* that the sort key allows (the order of equal keys is not specified)
SortedArrays(S, dir) ==
    LET n == Cardinality(S)
    IN  {f \in [1..n -> S] :
            /\ \A i, j \in 1..n : i # j => f[i] # f[j]
            /\ \A i \in 1..n, j \in 1..n : i < j =>
                  IF dir = 1 THEN f[i].postingDate <= f[j].postingDate
                             ELSE f[i].postingDate >= f[j].postingDate}

\* app.get('/jobs'): public, no gate
ListJobs(r, s, sort) ==
    /\ Routed(r, "GET /jobs")
    /\ req' = [req EXCEPT ![r] =
                 Await([IdleReq EXCEPT !.route = "GET /jobs", !.sender = s,
                                       !.layer = "api", !.sort = sort], "find")]
    /\ UNCHANGED <<bootVars, now, authVars, storeVars>>

ListJobsFound(r) ==
    /\ req[r].route = "GET /jobs" /\ req[r].pc = "find"
    /\ \E result \in SortedArrays(jobCollection, sortQuery(req[r].sort)) :
          req' = [req EXCEPT ![r] = SendResult([@ EXCEPT !.docs = result])]
    /\ UNCHANGED <<bootVars, now, authVars, storeVars>>

\* app.get('/job/:id', verifyToken, ...)
GetJob(r, s, id) ==
    /\ Routed(r, "GET /job/:id")
    /\ LET q == Arrival("GET /job/:id", s, verifyToken(Presented(s)))
       IN  req' = [req EXCEPT ![r] =
                     IF q.gate # "next" THEN Unauthorized(q)
                     ELSE IF ObjectIdThrows(id) THEN Throw(q)
                     ELSE Await([q EXCEPT !.id = id], "find")]
    /\ UNCHANGED <<bootVars, now, authVars, storeVars>>

GetJobFound(r) ==
    /\ req[r].route = "GET /job/:id" /\ req[r].pc = "find"
    /\ LET job == findOneJob(req[r].id)
       IN  req' = [req EXCEPT ![r] =
                     IF job = {} THEN Send(@, 404, "Job not found")
                     ELSE SendResult([@ EXCEPT !.docs = ToArray(job)])]
    /\ UNCHANGED <<bootVars, now, authVars, storeVars>>

\* a mutant of the scoped-list guard: the path email is not compared
ListGuardDeniesNever(user, email) == FALSE

\* if (req.user.email !== req.params.email) return res.status(403)...
ListGuardDenies(user, email) == user # email

\* app.get('/jobs/employer/:email', verifyToken, ...)
EmployerJobs(r, s, email) ==
    /\ Routed(r, "GET /jobs/employer/:email")
    /\ LET q == [Arrival("GET /jobs/employer/:email", s, verifyToken(Presented(s)))
                    EXCEPT !.owner = email]
       IN  req' = [req EXCEPT ![r] =
                     IF q.gate # "next" THEN Unauthorized(q)
                     ELSE IF ListGuardDenies(q.user, email)
                          THEN Send(q, 403, "Forbidden")
                          ELSE Await(q, "find")]
    /\ UNCHANGED <<bootVars, now, authVars, storeVars>>

EmployerJobsFound(r) ==
    /\ req[r].route = "GET /jobs/employer/:email" /\ req[r].pc = "find"
    /\ LET result == {j \in jobCollection : j.employerEmail = req[r].owner}
       IN  req' = [req EXCEPT ![r] = SendResult([@ EXCEPT !.docs = ToArray(result)])]
    /\ UNCHANGED <<bootVars, now, authVars, storeVars>>

\* if (req.user.email !== newJob.employerEmail) return res.status(403)...
CreateGuardDenies(user, owner) == user # owner

\* newJob.postingDate = new Date(newJob.postingDate || new Date()).toISOString();
\* part_002 takes new Date() whatever the body says
PostingDateThrows(v, date) == v # "part_002" /\ date = InvalidDate

PostingDate(v, date) == IF v = "part_002" \/ date = NoDate THEN now ELSE date

\* app.post('/jobs', verifyToken, ...): the date is computed before the guard
PostJobs(r, s, newJob) ==
    /\ Routed(r, "POST /jobs")
    /\ nextId <= MaxId
    /\ LET q == [Arrival("POST /jobs", s, verifyToken(Presented(s)))
                    EXCEPT !.owner = newJob.employerEmail,
                           !.date = newJob.postingDate,
                           !.title = newJob.jobTitle]
       IN  req' = [req EXCEPT ![r] =
                     IF q.gate # "next" THEN Unauthorized(q)
                     ELSE IF PostingDateThrows(variant, newJob.postingDate) THEN Throw(q)
                     ELSE IF CreateGuardDenies(q.user, newJob.employerEmail)
                          THEN Send(q, 403, "Forbidden: Email mismatch")
                          ELSE Await([q EXCEPT !.date =
                                         PostingDate(variant, newJob.postingDate)],
                                     "write")]
    /\ UNCHANGED <<bootVars, now, authVars, storeVars>>

\* jobCollection.insertOne(newJob): the driver adds the _id
PostJobsInserted(r) ==
    /\ req[r].route = "POST /jobs" /\ req[r].pc = "write"
    /\ nextId <= MaxId
    /\ jobCollection' = jobCollection \cup
          {[id |-> nextId, employerEmail |-> req[r].owner,
            postingDate |-> req[r].date, jobTitle |-> req[r].title]}
    /\ insertedOwner' = [insertedOwner EXCEPT ![nextId] = req[r].owner]
    /\ nextId' = nextId + 1
    /\ req' = [req EXCEPT ![r] = SendResult([@ EXCEPT !.insertedId = nextId])]
    /\ UNCHANGED <<bootVars, now, authVars, acceptedTasksCollection>>

\* a mutant of the mutation guard: only the existence of the job is checked
JobGuardDeniesMissingOnly(user, job) == job = {}

\* if (!job || req.user.email !== job.employerEmail) return res.status(403)...
JobGuardDenies(user, job) ==
    job = {} \/ \E j \in job : user # j.employerEmail

\* the $set document of updateOne: server.js and part_000 name the seven
\* editable fields, part_002 passes the body as it is
SetFields(v, j, updatedData) ==
    IF v = "part_002" /\ updatedData.employerEmail # Undefined
    THEN [j EXCEPT !.jobTitle = updatedData.jobTitle,
                   !.employerEmail = updatedData.employerEmail]
    ELSE [j EXCEPT !.jobTitle = updatedData.jobTitle]

\* app.put('/job/:id', verifyToken, ...)
PutJob(r, s, id, updatedData) ==
    /\ Routed(r, "PUT /job/:id")
    /\ LET q == [Arrival("PUT /job/:id", s, verifyToken(Presented(s)))
                    EXCEPT !.owner = updatedData.employerEmail,
                           !.title = updatedData.jobTitle]
       IN  req' = [req EXCEPT ![r] =
                     IF q.gate # "next" THEN Unauthorized(q)
                     ELSE IF ObjectIdThrows(id) THEN Throw(q)
                     ELSE Await([q EXCEPT !.id = id], "find")]
    /\ UNCHANGED <<bootVars, now, authVars, storeVars>>

PutJobFound(r) ==
    /\ req[r].route = "PUT /job/:id" /\ req[r].pc = "find"
    /\ req' = [req EXCEPT ![r] =
                 IF JobGuardDenies(@.user, findOneJob(@.id))
                 THEN Send(@, 403, "Forbidden")
                 ELSE Await(@, "write")]
    /\ UNCHANGED <<bootVars, now, authVars, storeVars>>

\* jobCollection.updateOne(filter, updateDoc)
PutJobUpdated(r) ==
    /\ req[r].route = "PUT /job/:id" /\ req[r].pc = "write"
    /\ jobCollection' =
          {IF j.id = req[r].id
           THEN SetFields(variant, j, [jobTitle |-> req[r].title,
                                       employerEmail |-> req[r].owner])
           ELSE j : j \in jobCollection}
    /\ req' = [req EXCEPT ![r] = SendResult(@)]
    /\ UNCHANGED <<bootVars, now, authVars, acceptedTasksCollection,
                   insertedOwner, nextId>>

\* app.delete('/job/:id', verifyToken, ...)
DeleteJob(r, s, id) ==
    /\ Routed(r, "DELETE /job/:id")
    /\ LET q == Arrival("DELETE /job/:id", s, verifyToken(Presented(s)))
       IN  req' = [req EXCEPT ![r] =
                     IF q.gate # "next" THEN Unauthorized(q)
                     ELSE IF ObjectIdThrows(id) THEN Throw(q)
                     ELSE Await([q EXCEPT !.id = id], "find")]
    /\ UNCHANGED <<bootVars, now, authVars, storeVars>>

DeleteJobFound(r) ==
    /\ req[r].route = "DELETE /job/:id" /\ req[r].pc = "find"
    /\ req' = [req EXCEPT ![r] =
                 IF JobGuardDenies(@.user, findOneJob(@.id))
                 THEN Send(@, 403, "Forbidden")
                 ELSE Await(@, "write")]
    /\ UNCHANGED <<bootVars, now, authVars, storeVars>>

\* a mutant of deleteOne: the filter names the owner of the job, not its _id
deleteJobsOfOwner(id) ==
    {j \in jobCollection :
        \A d \in findOneJob(id) : j.employerEmail # d.employerEmail}

\* jobCollection.deleteOne({ _id: new ObjectId(id) }): the collection afterwards
deleteOneJob(id) == {j \in jobCollection : j.id # id}

\* const result = await jobCollection.deleteOne(query); res.send(result)
DeleteJobDeleted(r) ==
    /\ req[r].route = "DELETE /job/:id" /\ req[r].pc = "write"
    /\ jobCollection' = deleteOneJob(req[r].id)
    /\ req' = [req EXCEPT ![r] = SendResult(@)]
    /\ UNCHANGED <<bootVars, now, authVars, acceptedTasksCollection,
                   insertedOwner, nextId>>

-----------------------------------------------------------------------------
(* Accepted-task endpoints *)

\* a mutant of the duplicate lookup: the taker is left out of the filter's result
existingTaskNever(jobId, jobTakerEmail) == {}

\* acceptedTasksCollection.findOne({ jobId: task.jobId, jobTakerEmail })
existingTask(jobId, jobTakerEmail) ==
    {t \in acceptedTasksCollection :
        t.jobId = jobId /\ t.jobTakerEmail = jobTakerEmail}

\* app.post('/accepted-tasks', verifyToken, ...)
AcceptTask(r, s, task) ==
    /\ Routed(r, "POST /accepted-tasks")
    /\ nextId <= MaxId
    /\ LET q == [Arrival("POST /accepted-tasks", s, verifyToken(Presented(s)))
                    EXCEPT !.owner = task.jobTakerEmail, !.jobId = task.jobId]
       IN  req' = [req EXCEPT ![r] =
                     IF q.gate # "next" THEN Unauthorized(q)
                     ELSE IF CreateGuardDenies(q.user, task.jobTakerEmail)
                          THEN Send(q, 403, "Forbidden: Email mismatch")
                          ELSE Await(q, "find")]
    /\ UNCHANGED <<bootVars, now, authVars, storeVars>>

\* the lookup has answered: a duplicate is a no-op, else insertOne is awaited
AcceptTaskFound(r) ==
    /\ req[r].route = "POST /accepted-tasks" /\ req[r].pc = "find"
    /\ req' = [req EXCEPT ![r] =
                 IF existingTask(@.jobId, @.owner) # {}
                 THEN [SendResult(@) EXCEPT !.message = "Already accepted",
                                            !.insertedId = NullId]
                 ELSE Await(@, "write")]
    /\ UNCHANGED <<bootVars, now, authVars, storeVars>>

\* acceptedTasksCollection.insertOne(task)
AcceptTaskInserted(r) ==
    /\ req[r].route = "POST /accepted-tasks" /\ req[r].pc = "write"
    /\ nextId <= MaxId
    /\ acceptedTasksCollection' = acceptedTasksCollection \cup
          {[id |-> nextId, jobId |-> req[r].jobId, jobTakerEmail |-> req[r].owner]}
    /\ nextId' = nextId + 1
    /\ req' = [req EXCEPT ![r] = SendResult([@ EXCEPT !.insertedId = nextId])]
    /\ UNCHANGED <<bootVars, now, authVars, jobCollection, insertedOwner>>

\* app.get('/accepted-tasks/taker/:email', verifyToken, ...)
TakerTasks(r, s, email) ==
    /\ Routed(r, "GET /accepted-tasks/taker/:email")
    /\ LET q == [Arrival("GET /accepted-tasks/taker/:email", s,
                         verifyToken(Presented(s))) EXCEPT !.owner = email]
       IN  req' = [req EXCEPT ![r] =
                     IF q.gate # "next" THEN Unauthorized(q)
                     ELSE IF ListGuardDenies(q.user, email)
                          THEN Send(q, 403, "Forbidden")
                          ELSE Await(q, "find")]
    /\ UNCHANGED <<bootVars, now, authVars, storeVars>>

TakerTasksFound(r) ==
    /\ req[r].route = "GET /accepted-tasks/taker/:email" /\ req[r].pc = "find"
    /\ LET result == {t \in acceptedTasksCollection : t.jobTakerEmail = req[r].owner}
       IN  req' = [req EXCEPT ![r] = SendResult([@ EXCEPT !.docs = ToArray(result)])]
    /\ UNCHANGED <<bootVars, now, authVars, storeVars>>

\* acceptedTasksCollection.findOne({ _id: new ObjectId(id) })
findOneTask(id) == {t \in acceptedTasksCollection : t.id = id}

\* if (!task || req.user.email !== task.jobTakerEmail) return res.status(403)...
TaskGuardDenies(user, task) ==
    task = {} \/ \E t \in task : user # t.jobTakerEmail

\* app.delete('/accepted-tasks/:id', verifyToken, ...)
DeleteTask(r, s, id) ==
    /\ Routed(r, "DELETE /accepted-tasks/:id")
    /\ LET q == Arrival("DELETE /accepted-tasks/:id", s, verifyToken(Presented(s)))
       IN  req' = [req EXCEPT ![r] =
                     IF q.gate # "next" THEN Unauthorized(q)
                     ELSE IF ObjectIdThrows(id) THEN Throw(q)
                     ELSE Await([q EXCEPT !.id = id], "find")]
    /\ UNCHANGED <<bootVars, now, authVars, storeVars>>

DeleteTaskFound(r) ==
    /\ req[r].route = "DELETE /accepted-tasks/:id" /\ req[r].pc = "find"
    /\ req' = [req EXCEPT ![r] =
                 IF TaskGuardDenies(@.user, findOneTask(@.id))
                 THEN Send(@, 403, "Forbidden")
                 ELSE Await(@, "write")]
    /\ UNCHANGED <<bootVars, now, authVars, storeVars>>

\* acceptedTasksCollection.deleteOne(query)
DeleteTaskDeleted(r) ==
    /\ req[r].route = "DELETE /accepted-tasks/:id" /\ req[r].pc = "write"
    /\ acceptedTasksCollection' = {t \in acceptedTasksCollection : t.id # req[r].id}
    /\ req' = [req EXCEPT ![r] = SendResult(@)]
    /\ UNCHANGED <<bootVars, now, authVars, jobCollection, insertedOwner, nextId>>

-----------------------------------------------------------------------------
(* Specifications *)

InitOf(variants) ==
    /\ variant \in variants
    /\ stack = <<>>
    /\ runPc = "start"
    /\ connected = "no"
    /\ listening = FALSE
    /\ now = 0
    /\ cookie = [c \in Clients |-> NoToken]
    /\ issuedAt = [c \in Clients |-> 0]
    /\ loggedOut = [c \in Clients |-> FALSE]
    /\ kept = NoToken
    /\ jobCollection = {}
    /\ acceptedTasksCollection = {}
    /\ insertedOwner = [i \in ObjectIds |-> Undefined]
    /\ nextId = 1
    /\ req = [r \in Reqs |-> IdleReq]

Init == InitOf(Variants)

\* what the clients send
JwtBodies == [email : Emails, iat : {0, ExpiresIn}]
Logins == [email : Emails, iat : {0}]
NewJobs == [employerEmail : Emails, postingDate : BodyDates, jobTitle : {"t1"}]
UpdatedData == [employerEmail : EmailOrUndefined, jobTitle : {"t2"}]
Tasks == [jobId : JobRefs, jobTakerEmail : Emails]

Startup ==
    \/ Boot
    \/ \E ok \in BOOLEAN : ConnectDone(ok)
    \/ \E ok \in BOOLEAN : PingDone(ok)

Login(bodies) == \E c \in Clients, user \in bodies : Jwt(c, user)

JobRequests(R, S, newJobs, updates) ==
    \E r \in R, s \in S :
       \/ \E sort \in Sorts : ListJobs(r, s, sort)
       \/ \E id \in PathIds : GetJob(r, s, id)
       \/ \E email \in Emails : EmployerJobs(r, s, email)
       \/ \E newJob \in newJobs : PostJobs(r, s, newJob)
       \/ \E id \in PathIds, updatedData \in updates : PutJob(r, s, id, updatedData)
       \/ \E id \in PathIds : DeleteJob(r, s, id)

JobSteps(R) ==
    \E r \in R :
       \/ ListJobsFound(r) \/ GetJobFound(r) \/ EmployerJobsFound(r)
       \/ PostJobsInserted(r)
       \/ PutJobFound(r) \/ PutJobUpdated(r)
       \/ DeleteJobFound(r) \/ DeleteJobDeleted(r)

TaskRequests(R, S, tasks) ==
    \E r \in R, s \in S :
       \/ \E task \in tasks : AcceptTask(r, s, task)
       \/ \E email \in Emails : TakerTasks(r, s, email)
       \/ \E id \in PathIds : DeleteTask(r, s, id)

TaskSteps(R) ==
    \E r \in R :
       \/ AcceptTaskFound(r) \/ AcceptTaskInserted(r)
       \/ TakerTasksFound(r)
       \/ DeleteTaskFound(r) \/ DeleteTaskDeleted(r)

\* The endpoints that change a collection, with requests interleaved at
\* their awaits
MutationRequests(R, S) ==
    \E r \in R, s \in S :
       \/ \E newJob \in [employerEmail : Emails, postingDate : {NoDate},
                         jobTitle : {"t1"}] : PostJobs(r, s, newJob)
       \/ \E id \in PathIds,
             updatedData \in [employerEmail : {Undefined}, jobTitle : {"t2"}] :
                PutJob(r, s, id, updatedData)
       \/ \E id \in PathIds : DeleteJob(r, s, id)
       \/ \E task \in [jobId : {"J1"}, jobTakerEmail : Emails] : AcceptTask(r, s, task)
       \/ \E id \in PathIds : DeleteTask(r, s, id)

MutationSteps(R) ==
    \E r \in R :
       \/ PostJobsInserted(r)
       \/ PutJobFound(r) \/ PutJobUpdated(r)
       \/ DeleteJobFound(r) \/ DeleteJobDeleted(r)
       \/ AcceptTaskFound(r) \/ AcceptTaskInserted(r)
       \/ DeleteTaskFound(r) \/ DeleteTaskDeleted(r)

NextMutations ==
    \/ Boot
    \/ Login(Logins)
    \/ MutationRequests(Reqs, Clients)
    \/ MutationSteps(Reqs)

SpecMutations == InitOf({"server.js"}) /\ [][NextMutations]_vars

\* Every endpoint of both collections, one request at a time
OneAtATime == {1}

Next ==
    \/ Startup
    \/ Login(Logins)
    \/ JobRequests(OneAtATime, Clients, NewJobs, UpdatedData)
    \/ JobSteps(OneAtATime)
    \/ TaskRequests(OneAtATime, Clients, Tasks)
    \/ TaskSteps(OneAtATime)

Spec == Init /\ [][Next]_vars

\* The listing endpoints over stores that POST and DELETE build up
ListRequests(R, S) ==
    \E r \in R, s \in S :
       \/ \E sort \in Sorts : ListJobs(r, s, sort)
       \/ \E email \in Emails : EmployerJobs(r, s, email)
       \/ \E email \in Emails : TakerTasks(r, s, email)
       \/ \E newJob \in NewJobs : PostJobs(r, s, newJob)
       \/ \E id \in PathIds : DeleteJob(r, s, id)
       \/ \E task \in Tasks : AcceptTask(r, s, task)

ListSteps(R) ==
    \E r \in R :
       \/ ListJobsFound(r) \/ EmployerJobsFound(r) \/ TakerTasksFound(r)
       \/ PostJobsInserted(r)
       \/ DeleteJobFound(r) \/ DeleteJobDeleted(r)
       \/ AcceptTaskFound(r) \/ AcceptTaskInserted(r)

NextLists ==
    \/ Startup
    \/ Login(Logins)
    \/ ListRequests(OneAtATime, Clients)
    \/ ListSteps(OneAtATime)

SpecLists == Init /\ [][NextLists]_vars

\* The accepted-task endpoints, with requests interleaved at their awaits
NextTasks ==
    \/ Boot
    \/ \E ok \in BOOLEAN : ConnectDone(ok)
    \/ Login(Logins)
    \/ TaskRequests(Reqs, Clients, Tasks)
    \/ TaskSteps(Reqs)

SpecTasks == InitOf({"server.js", "part_002"}) /\ [][NextTasks]_vars

\* Sessions over time: tokens are signed, expire and are dropped while every
\* endpoint is called, by the browser and by a sender with a forged token
AuthRequests(R, S) ==
    \E r \in R, s \in S :
       \/ \E route \in Routes : Unrouted(r, route, s)
       \/ ListJobs(r, s, Undefined)
       \/ \E id \in {MalformedId, 1} : GetJob(r, s, id)
       \/ EmployerJobs(r, s, "a@x.com")
       \/ PostJobs(r, s, [employerEmail |-> "a@x.com", postingDate |-> NoDate,
                          jobTitle |-> "t1"])
       \/ PutJob(r, s, 1, [employerEmail |-> Undefined, jobTitle |-> "t2"])
       \/ DeleteJob(r, s, 1)
       \/ AcceptTask(r, s, [jobId |-> "J1", jobTakerEmail |-> "a@x.com"])
       \/ TakerTasks(r, s, "a@x.com")
       \/ DeleteTask(r, s, 2)

NextAuth ==
    \/ Startup
    \/ Tick
    \/ Login(JwtBodies)
    \/ \E c \in Clients : Logout(c)
    \/ AuthRequests(OneAtATime, Senders)
    \/ JobSteps(OneAtATime)
    \/ TaskSteps(OneAtATime)

SpecAuth == Init /\ [][NextAuth]_vars

\* Failures: malformed ids, unparsable dates, a collection call that rejects
\* and an origin cors refuses, one request at a time
NextFailures ==
    \/ Startup
    \/ Login(Logins)
    \/ JobRequests(OneAtATime, Clients, NewJobs, UpdatedData)
    \/ JobSteps(OneAtATime)
    \/ TaskRequests(OneAtATime, Clients, Tasks)
    \/ TaskSteps(OneAtATime)
    \/ \E r \in OneAtATime : DbFails(r)
    \/ \E r \in OneAtATime, route \in {"GET /job/:id", "POST /jobs"} :
          CorsRejected(r, route, Attacker)

SpecFailures == Init /\ [][NextFailures]_vars

\* Jobs and the accepted tasks that name them: jobs are posted and deleted,
\* tasks are accepted, listed and deleted, one request at a time
CascadeRequests(R, S) ==
    \E r \in R, s \in S :
       \/ \E newJob \in [employerEmail : Emails, postingDate : {NoDate},
                         jobTitle : {"t1"}] : PostJobs(r, s, newJob)
       \/ \E id \in PathIds : DeleteJob(r, s, id)
       \/ \E task \in Tasks : AcceptTask(r, s, task)
       \/ \E email \in Emails : TakerTasks(r, s, email)
       \/ \E id \in PathIds : DeleteTask(r, s, id)

CascadeSteps(R) ==
    \E r \in R :
       \/ PostJobsInserted(r)
       \/ DeleteJobFound(r) \/ DeleteJobDeleted(r)
       \/ AcceptTaskFound(r) \/ AcceptTaskInserted(r)
       \/ TakerTasksFound(r)
       \/ DeleteTaskFound(r) \/ DeleteTaskDeleted(r)

NextCascade ==
    \/ Boot
    \/ Login(Logins)
    \/ CascadeRequests(OneAtATime, Clients)
    \/ CascadeSteps(OneAtATime)

SpecCascade == InitOf({"server.js"}) /\ [][NextCascade]_vars

\* Tokens outside the jar: a client keeps the token POST /jwt has set, the
\* browser logs out, and the kept token is presented again
ReplayRequests(R, S) ==
    \E r \in R, s \in S :
       \/ GetJob(r, s, 1)
       \/ \E email \in Emails : EmployerJobs(r, s, email)
       \/ \E newJob \in [employerEmail : Emails, postingDate : {NoDate},
                         jobTitle : {"t1"}] : PostJobs(r, s, newJob)

ReplaySteps(R) ==
    \E r \in R : GetJobFound(r) \/ EmployerJobsFound(r) \/ PostJobsInserted(r)

NextReplay ==
    \/ Boot
    \/ Tick
    \/ Login(Logins)
    \/ \E c \in Clients : Logout(c)
    \/ \E c \in Clients : KeepToken(c)
    \/ ReplayRequests(OneAtATime, Clients \cup {Replayer})
    \/ ReplaySteps(OneAtATime)

SpecReplay == InitOf({"server.js"}) /\ [][NextReplay]_vars

\* Bodies that leave the identity out: POST /jwt without email, documents
\* without their owner field
EmailClaims == [email : EmailOrUndefined, iat : {0}]

OwnerRequests(R, S) ==
    \E r \in R, s \in S :
       \/ \E newJob \in [employerEmail : EmailOrUndefined, postingDate : {NoDate},
                         jobTitle : {"t1"}] : PostJobs(r, s, newJob)
       \/ \E id \in PathIds,
             updatedData \in [employerEmail : {Undefined}, jobTitle : {"t2"}] :
                PutJob(r, s, id, updatedData)
       \/ \E id \in PathIds : DeleteJob(r, s, id)
       \/ \E task \in [jobId : {"J1"}, jobTakerEmail : EmailOrUndefined] :
             AcceptTask(r, s, task)
       \/ \E id \in PathIds : DeleteTask(r, s, id)

NextOwners ==
    \/ Boot
    \/ Login(EmailClaims)
    \/ OwnerRequests(OneAtATime, Clients)
    \/ MutationSteps(OneAtATime)

SpecOwners == InitOf({"server.js"}) /\ [][NextOwners]_vars

-----------------------------------------------------------------------------
(* Properties *)

\* slot r takes a new request in this step
Arrives(r) == SlotFree(r) /\ req'[r] # req[r]

\* the awaited lookup of slot r is answered in this step
LookupAnswered(r, routes) ==
    req[r].route \in routes /\ req[r].pc = "find" /\ req'[r] # req[r]

\* the awaited write of slot r is carried out in this step
WriteDone(r, routes) ==
    req[r].route \in routes /\ req[r].pc = "write" /\ req'[r] # req[r]

MutationRoutes == {"PUT /job/:id", "DELETE /job/:id", "DELETE /accepted-tasks/:id"}

\* the owner fields stored under the id the request names
TargetOwners(q) ==
    IF q.route = "DELETE /accepted-tasks/:id"
    THEN {t.jobTakerEmail : t \in {x \in acceptedTasksCollection : x.id = q.id}}
    ELSE {j.employerEmail : j \in {x \in jobCollection : x.id = q.id}}

\* C1: when the lookup of PUT /job/:id, DELETE /job/:id or DELETE
\* /accepted-tasks/:id finds no document under the id, or one whose owner
\* field is not the caller's identity, the answer is 403 with one and the
\* same body in both cases, no write is issued and both collections stay
\* as they are.
C1_ForbiddenLeavesStore ==
    [][\A r \in Reqs :
          (LookupAnswered(r, MutationRoutes) /\ req[r].user \notin TargetOwners(req[r]))
          => /\ req'[r].pc = "done"
             /\ req'[r].status = 403
             /\ req'[r].message = "Forbidden"
             /\ req'[r].dbCalls = 1
             /\ UNCHANGED <<jobCollection, acceptedTasksCollection>>]_vars

\* C1 witness: one request was refused for a missing target and another for
\* a job that is in the store under another owner.
C1_Witness ==
    \E r1, r2 \in Reqs :
       /\ req[r1].route = "DELETE /job/:id" /\ req[r1].status = 403
       /\ \E j \in jobCollection : j.id = req[r1].id /\ j.employerEmail # req[r1].user
       /\ req[r2].route = "DELETE /accepted-tasks/:id" /\ req[r2].status = 403
       /\ \A t \in acceptedTasksCollection : t.id # req[r2].id

CreationRoutes == {"POST /jobs", "POST /accepted-tasks"}

\* C2: an authenticated POST /jobs or POST /accepted-tasks whose body names
\* another owner than the caller is answered 403; one that names the caller
\* goes on to the insert and is answered 200, and the job it inserted is then
\* in the store under the returned id, a well-formed one, where the lookup of
\* GET /job/:id finds it.
C2_CreationGuard ==
    \A r \in Reqs :
       LET q == req[r]
       IN  (q.route \in CreationRoutes /\ q.gate = "next")
           => /\ q.owner # q.user => q.pc = "done" /\ q.status = 403
              /\ q.owner = q.user =>
                    \/ q.pc \in {"find", "write"}
                    \/ q.pc = "done" /\ q.status = 200
              /\ (q.route = "POST /jobs" /\ q.pc = "done" /\ q.status = 200)
                 => /\ ~ObjectIdThrows(q.insertedId)
                    /\ \E j \in findOneJob(q.insertedId) : j.employerEmail = q.owner

\* C3: no two accepted tasks share (jobId, jobTakerEmail).
C3_OnePerPair ==
    \A t1, t2 \in acceptedTasksCollection :
       (t1.jobId = t2.jobId /\ t1.jobTakerEmail = t2.jobTakerEmail) => t1 = t2

PairAccepted(q) ==
    \E t \in acceptedTasksCollection :
       t.jobId = q.jobId /\ t.jobTakerEmail = q.owner

\* C4: a POST /accepted-tasks whose lookup runs when the pair is not in the
\* store goes on to insert exactly one record and returns its new id; one
\* whose lookup runs when the pair is in the store (any repetition after a
\* completed accept) returns "Already accepted" with insertedId null and
\* leaves the collection as it is.
C4_SecondAcceptIsNoOp ==
    [][\A r \in Reqs :
          /\ (LookupAnswered(r, {"POST /accepted-tasks"}) /\ PairAccepted(req[r]))
             => /\ req'[r].pc = "done" /\ req'[r].status = 200
                /\ req'[r].message = "Already accepted"
                /\ req'[r].insertedId = NullId
                /\ acceptedTasksCollection' = acceptedTasksCollection
          /\ (LookupAnswered(r, {"POST /accepted-tasks"}) /\ ~PairAccepted(req[r]))
             => req'[r].pc = "write"
          /\ WriteDone(r, {"POST /accepted-tasks"})
             => /\ req'[r].insertedId # NullId
                /\ \A t \in acceptedTasksCollection : t.id # req'[r].insertedId
                /\ acceptedTasksCollection' = acceptedTasksCollection \cup
                      {[id |-> req'[r].insertedId, jobId |-> req[r].jobId,
                        jobTakerEmail |-> req[r].owner]}]_vars

\* C4 witness: a repeated accept was answered as a no-op and the pair is in
\* the store once.
C4_Witness ==
    \E r \in Reqs :
       /\ req[r].route = "POST /accepted-tasks"
       /\ req[r].message = "Already accepted"
       /\ Cardinality({t \in acceptedTasksCollection :
                          t.jobTakerEmail = req[r].owner}) = 1

\* the token cannot pass: there is none, the server did not sign it, or it
\* has expired
Rejected(token) ==
    \/ token = NoToken
    \/ token.sig # ACCESS_TOKEN_SECRET
    \/ now >= token.exp

\* C5: a request that reaches one of the eight per-user endpoints with no
\* token cookie or with a token that does not verify is answered 401 without
\* any handler logic or collection call, and leaves the store alone; with a
\* token that verifies, the handler runs with that token's identity.  A
\* request that made a collection call has passed the gate, and GET /jobs is
\* the only endpoint that calls a collection without the gate.
C5_GateBeforeHandler ==
    /\ [][\A r \in Reqs :
             (Arrives(r) /\ req'[r].layer = "api" /\ req'[r].route \in ProtectedRoutes)
             => LET token == Presented(req'[r].sender)
                IN  /\ Rejected(token)
                       => /\ req'[r].pc = "done" /\ req'[r].status = 401
                          /\ req'[r].dbCalls = 0
                          /\ req'[r].user = Undefined
                          /\ UNCHANGED storeVars
                    /\ ~Rejected(token)
                       => /\ req'[r].status # 401
                          /\ req'[r].user = token.email]_vars
    /\ [](\A r \in Reqs :
             /\ (req[r].dbCalls > 0 /\ req[r].route # "GET /jobs")
                => req[r].gate = "next"
             /\ (req[r].layer = "api" /\ req[r].gate = "none")
                => req[r].route = "GET /jobs"
             /\ req[r].status = 401 => req[r].dbCalls = 0)

\* C5 witness: the browser's token has expired and its request to a per-user
\* endpoint was answered 401.
C5_Witness ==
    \E r \in Reqs, c \in Clients :
       /\ req[r].sender = c /\ req[r].route \in ProtectedRoutes
       /\ req[r].status = 401 /\ req[r].gate = "invalidToken"
       /\ cookie[c] # NoToken /\ now >= cookie[c].exp

\* C6: the token POST /jwt has set verifies to the identity of the body until
\* one hour after it was issued and is rejected as expired from then on; with
\* another secret it never verifies.
C6_OneHour ==
    \A c \in Clients :
       cookie[c] # NoToken
       => /\ now < issuedAt[c] + ExpiresIn
             => verifyToken(cookie[c]) = [gate |-> "next", user |-> cookie[c].email]
          /\ now >= issuedAt[c] + ExpiresIn
             => jwtVerify(cookie[c], ACCESS_TOKEN_SECRET) = "TokenExpiredError"
          /\ jwtVerify(cookie[c], OtherSecret) = "JsonWebTokenError"

ListRoutes == {"GET /jobs/employer/:email", "GET /accepted-tasks/taker/:email"}

\* the documents of the route's collection whose owner field is the email
OwnedBy(route, email) ==
    IF route = "GET /jobs/employer/:email"
    THEN {j \in jobCollection : j.employerEmail = email}
    ELSE {t \in acceptedTasksCollection : t.jobTakerEmail = email}

\* C7: a scoped list asked for another email than the caller's identity is
\* answered 403 with no documents and without a collection call; asked for
\* the caller's own email it returns exactly the documents whose owner field
\* is the caller's identity, each once.
C7_ScopedList ==
    /\ [](\A r \in Reqs :
             LET q == req[r]
             IN  (q.route \in ListRoutes /\ q.gate = "next")
                 => /\ q.owner # q.user
                       => /\ q.pc = "done" /\ q.status = 403
                          /\ q.docs = <<>> /\ q.dbCalls = 0
                    /\ q.owner = q.user => q.status # 403)
    /\ [][\A r \in Reqs :
             LookupAnswered(r, ListRoutes)
             => /\ req'[r].pc = "done" /\ req'[r].status = 200
                /\ Range(req'[r].docs) = OwnedBy(req[r].route, req[r].user)
                /\ Len(req'[r].docs) = Cardinality(Range(req'[r].docs))]_vars

\* C7 witness: a scoped list returned the caller's job while the store also
\* holds a job of another identity.
C7_Witness ==
    \E r \in Reqs :
       /\ req[r].route = "GET /jobs/employer/:email" /\ req[r].status = 200
       /\ Len(req[r].docs) = 1
       /\ Range(req[r].docs) \subseteq jobCollection
       /\ \E j \in jobCollection : j.employerEmail # req[r].user

\* C8: every job in the store has the employerEmail it was inserted with.
C8_OwnerImmutable ==
    \A j \in jobCollection : j.employerEmail = insertedOwner[j.id]

\* C9: once a browser has called POST /logout and not POST /jwt since, its
\* jar holds no token and its request to a per-user endpoint is answered 401.
C9_LogoutThen401 ==
    /\ [](\A c \in Clients : loggedOut[c] => cookie[c] = NoToken)
    /\ [][\A r \in Reqs :
             (/\ Arrives(r)
              /\ req'[r].layer = "api" /\ req'[r].route \in ProtectedRoutes
              /\ req'[r].sender \in Clients /\ loggedOut[req'[r].sender])
             => /\ req'[r].pc = "done" /\ req'[r].status = 401
                /\ req'[r].message = "No token"]_vars

\* C9 witness: a browser that had created a job logged out and its next
\* request was answered 401.
C9_Witness ==
    \E r \in Reqs, c \in Clients :
       /\ loggedOut[c] /\ req[r].sender = c
       /\ req[r].route \in ProtectedRoutes
       /\ req[r].status = 401 /\ req[r].gate = "noToken"
       /\ jobCollection # {}

\* C10: GET /jobs answers 200 with every job of the store exactly once, by
\* postingDate ascending for sort=asc and descending for sort=desc, for no
\* sort and for any other value.
C10_ListSorted ==
    [][\A r \in Reqs :
          LookupAnswered(r, {"GET /jobs"})
          => LET docs == req'[r].docs
             IN  /\ req'[r].pc = "done" /\ req'[r].status = 200
                 /\ Range(docs) = jobCollection
                 /\ Len(docs) = Cardinality(jobCollection)
                 /\ \A i, j \in DOMAIN docs :
                       i < j => IF req[r].sort = "asc"
                                THEN docs[i].postingDate <= docs[j].postingDate
                                ELSE docs[i].postingDate >= docs[j].postingDate]_vars

\* C10 witness: a listing returned two jobs of different dates, the later
\* one first.
C10_Witness ==
    \E r \in Reqs :
       /\ req[r].route = "GET /jobs" /\ req[r].status = 200
       /\ Len(req[r].docs) = 2
       /\ req[r].docs[1].postingDate > req[r].docs[2].postingDate

\* C11: a request that has reached a route handler is never left without a
\* response: it is waiting for a collection call or it has been answered, and
\* when its handler failed after the gate (a malformed id, a collection call
\* that rejected) the answer is 500 "Something broke!".
C11_FailureAnswered500 ==
    \A r \in Reqs :
       req[r].layer = "api" => req[r].pc \in {"idle", "find", "write", "done"}

\* C12: once client.connect() has failed at start-up, no request is taken by
\* an API route: none reaches the gate or a handler, and none calls a
\* collection.
C12_NoTrafficUnconnected ==
    connected = "failed" => \A r \in Reqs : req[r].layer # "api"

\* the jobId a client writes for the job with this _id (its hex string)
JobRefOf == <<"J1", "J2">>

\* the task names a job that was inserted and is no longer in the store
Orphan(t) ==
    \E i \in ObjectIds \cap DOMAIN JobRefOf :
       /\ t.jobId = JobRefOf[i]
       /\ insertedOwner[i] # Undefined
       /\ findOneJob(i) = {}

\* C13: the deleteOne of DELETE /job/:id, reached by the owner only, removes
\* the one job under that id, keeps every other job and the whole
\* accepted-task collection and answers 200.  An accepted task whose job is
\* gone stays where it was: the taker's list returns it with the taker's
\* other tasks, and the taker's DELETE /accepted-tasks/:id passes the guard
\* and removes that task and nothing else.
C13_NoCascade ==
    [][\A r \in Reqs :
          /\ WriteDone(r, {"DELETE /job/:id"})
             => /\ \E j \in jobCollection :
                      /\ j.id = req[r].id /\ j.employerEmail = req[r].user
                      /\ jobCollection' = jobCollection \ {j}
                /\ acceptedTasksCollection' = acceptedTasksCollection
                /\ req'[r].pc = "done" /\ req'[r].status = 200
          /\ LookupAnswered(r, {"GET /accepted-tasks/taker/:email"})
             => /\ req'[r].status = 200
                /\ Range(req'[r].docs) =
                      {t \in acceptedTasksCollection : t.jobTakerEmail = req[r].user}
          /\ (/\ LookupAnswered(r, {"DELETE /accepted-tasks/:id"})
              /\ \E t \in findOneTask(req[r].id) : t.jobTakerEmail = req[r].user)
             => req'[r].pc = "write"
          /\ WriteDone(r, {"DELETE /accepted-tasks/:id"})
             => /\ acceptedTasksCollection' =
                      acceptedTasksCollection \ findOneTask(req[r].id)
                /\ jobCollection' = jobCollection
                /\ req'[r].status = 200]_vars

\* C13 witness: a job was deleted by its owner and the taker's list has
\* since returned the task that names it, which is still in the store.
C13_Witness ==
    \E r \in Reqs :
       /\ req[r].route = "GET /accepted-tasks/taker/:email" /\ req[r].status = 200
       /\ \E i \in DOMAIN req[r].docs :
             Orphan(req[r].docs[i]) /\ req[r].docs[i] \in acceptedTasksCollection

\* C14: a request to a per-user endpoint that presents a token the server
\* signed and that has not expired passes the gate as the token's identity
\* and is not answered 401, also when POST /logout has been called since the
\* token was issued; the gate reads nothing but the token and the clock.
C14_TokenOutlivesLogout ==
    [][\A r \in Reqs :
          (/\ Arrives(r)
           /\ req'[r].layer = "api" /\ req'[r].route \in ProtectedRoutes
           /\ req'[r].sender = Replayer
           /\ kept # NoToken /\ now < kept.exp)
          => /\ req'[r].gate = "next"
             /\ req'[r].user = kept.email
             /\ req'[r].status # 401]_vars

\* C14 witness: the browser has logged out and the token it had been given,
\* presented from a copy afterwards, has been let through to a job creation.
C14_Witness ==
    \E r \in Reqs, c \in Clients :
       /\ loggedOut[c] /\ cookie[c] = NoToken
       /\ req[r].sender = Replayer /\ req[r].route = "POST /jobs"
       /\ req[r].gate = "next" /\ req[r].user = kept.email
       /\ req[r].status = 200 /\ req[r].insertedId # NullId

\* the places of a layer in the router stack
Places(layer) == {i \in DOMAIN stack : stack[i] = layer}

\* C15: in a variant that serves the frontend the routes of run() stand in
\* the router stack before express.static and the catch-all, and a GET to an
\* API path the variant registers is never answered by the catch-all.
C15_ApiBeforeCatchAll ==
    /\ \A i \in Places("api"), j \in Places("static") \cup Places("catchall") : i < j
    /\ \A r \in Reqs :
          (req[r].route \in GetRoutes \cap ApiRoutes(variant))
          => req[r].layer # "catchall"

\* the request has got past the creation guard or the mutation guard
PassedGuard(q) ==
    \/ q.pc = "write"
    \/ q.pc = "done" /\ q.status = 200
    \/ q.route = "POST /accepted-tasks" /\ q.pc = "find"

\* C16: every job and every accepted task in the store has an email as its
\* owner field, the one of the session whose request inserted it; a request
\* whose token carries no email never gets past a creation guard or a
\* mutation guard.
C16_OwnersDefined ==
    /\ \A j \in jobCollection : j.employerEmail \in Emails
    /\ \A t \in acceptedTasksCollection : t.jobTakerEmail \in Emails
    /\ \A r \in Reqs :
          LET q == req[r]
          IN  /\ (q.route \in CreationRoutes /\ q.insertedId # NullId)
                 => q.user \in Emails /\ q.owner = q.user
              /\ (/\ q.route \in CreationRoutes \cup MutationRoutes
                  /\ q.gate = "next" /\ q.user = Undefined)
                 => ~PassedGuard(q)

====
